---- MODULE Spec2Model ----
(***************************************************************************)
(* Model of ImguiExample/blender_imgui.py: the GlobalImgui overlay         *)
(* registry (lazy context creation, draw hooks, dispatch), the             *)
(* BlenderImguiRenderer.render draw translator, the input translator       *)
(* ImguiBasedOperator.modal_imgui, the overlay wrappers register_overlay   *)
(* and unregister_overlay, and the loading of the module.                  *)
(*                                                                         *)
(* Python objects are records.  A Python dict is a sequence of entries in  *)
(* insertion order (dicts iterate in insertion order).  None is 0 for the  *)
(* fields that hold an object id.  Floats are fixed-point numbers with two *)
(* fractional bits (unit 1/4), so that int() truncates something.          *)
(***************************************************************************)
EXTENDS Integers, Sequences, FiniteSets, TLC

VARIABLES
    g,          \* the GlobalImgui singleton's attributes
    host,       \* the host: installed draw hooks, GUI contexts, and their history
    returned,   \* every handle handler_add has returned, in call order
    added,      \* the region types handler_add was called with since the last
                \* init_imgui
    last_call,  \* the last call, its arguments and how it ended
    frame,      \* the GUI-library / callback events of the last call (a dispatch)
    io,         \* imgui.get_io(): display_size, display_fb_scale
    draw_data,  \* the DrawData handed to render (scale_clip_rects mutates it)
    gpu,        \* host GPU state and the host calls of the last render
    input_io,   \* imgui.get_io(): mouse, keyboard and text input fields
    driver_namespace,   \* bpy.app.driver_namespace, the "_imgui_" keys
    module      \* the loading of blender_imgui: how far it got, what it printed

vars == <<g, host, returned, added, last_call, frame, io, draw_data, gpu,
          input_io, driver_namespace, module>>

(***************************************************************************)
(* Bounds.                                                                 *)
(***************************************************************************)
\* handler_add calls over the process lifetime (top-level and from callbacks)
MaxAdds == 3
\* command lists per DrawData
MaxLists == 2
\* draw commands per command list
MaxCmds == 2
\* characters in the GUI library's text input queue
MaxChars == 1

SpaceTypes == {"SpaceView3D", "SpaceImageEditor"}
Callbacks == {"f", "g"}
\* the (callback, SpaceType) pairs callers register
AddArgs ==
    {<<cb, sp>> : cb \in Callbacks, sp \in SpaceTypes} \ {<<"g", "SpaceImageEditor">>}
HostContexts == {"ctx1", "ctx2"}
\* the bl_idname of the overlay classes
OverlayClasses == {"OverlayA", "OverlayB"}
\* handles a caller may pass to handler_remove: every handle that can exist,
\* and one that never does
Handles == 0..MaxAdds

(***************************************************************************)
(* Python dict helpers (insertion-ordered).                                *)
(***************************************************************************)
Keys(d) == {d[i].handle : i \in 1..Len(d)}

RECURSIVE DictDel(_, _)
DictDel(d, k) ==
    IF d = <<>> THEN <<>>
    ELSE IF Head(d).handle = k THEN Tail(d)
    ELSE <<Head(d)>> \o DictDel(Tail(d), k)

\* d[k] = v : replaces the value in place when k is present, appends otherwise
DictSet(d, k, cb, sp) ==
    IF k \in Keys(d)
    THEN [i \in 1..Len(d) |->
            IF d[i].handle = k THEN [handle |-> k, cb |-> cb, space |-> sp] ELSE d[i]]
    ELSE Append(d, [handle |-> k, cb |-> cb, space |-> sp])

(***************************************************************************)
(* GlobalImgui.  A world w is [g, host, returned, added, outcome]: the     *)
(* operators below are the methods, taking the world to the world after    *)
(* the call.                                                               *)
(***************************************************************************)
\* GlobalImgui.__init__: only imgui_ctx is set; draw_handlers, callbacks and
\* next_callback_id do not exist until init_imgui runs (has_attrs = FALSE).
NewGlobalImgui ==
    [imgui_ctx |-> 0, imgui_backend |-> 0, has_attrs |-> FALSE,
     draw_handlers |-> {}, callbacks |-> <<>>, next_callback_id |-> 0]

NewHost ==
    [hooks |-> {},          \* hooks installed now: [id, space]
     n_hooks |-> 0,         \* hooks ever installed
     removals |-> <<>>,     \* removals[id]: draw_handler_remove calls on hook id
     n_ctx |-> 0,           \* contexts ever created
     destroys |-> <<>>,     \* destroys[id]: destroy_context calls on context id
     live_ctx |-> {}]       \* contexts created and not destroyed

\* imgui.create_context(), BlenderImguiRenderer(), and fresh draw_handlers,
\* callbacks and next_callback_id (setup_key_map only writes io.key_map).
init_imgui(w) ==
    LET id == w.host.n_ctx + 1 IN
    [w EXCEPT
        !.g = [imgui_ctx |-> id, imgui_backend |-> id, has_attrs |-> TRUE,
               draw_handlers |-> {}, callbacks |-> <<>>,
               next_callback_id |-> 0],
        !.host.n_ctx = id,
        !.host.destroys = Append(@, 0),
        !.host.live_ctx = @ \cup {id},
        !.added = {}]

\* Variant: only the hooks of SpaceView3D are removed.
RemoveHooks_view3d_only(h, dh) ==
    LET dh3 == {e \in dh : e.space = "SpaceView3D"} IN
    [h EXCEPT
        !.hooks = {k \in @ : ~(\E e \in dh3 : e.space = k.space /\ e.hook = k.id)},
        !.removals = [i \in DOMAIN @ |->
                        @[i] + Cardinality({e \in dh3 : e.hook = i})]]

\* SpaceType.draw_handler_remove(draw_handler, 'WINDOW') for every entry of
\* draw_handlers (a dict SpaceType -> hook, here the set of its items).
RemoveHooks(h, dh) ==
    [h EXCEPT
        !.hooks = {k \in @ : ~(\E e \in dh : e.space = k.space /\ e.hook = k.id)},
        !.removals = [i \in DOMAIN @ |->
                        @[i] + Cardinality({e \in dh : e.hook = i})]]

\* Variant: the context is destroyed but the hooks stay installed.
shutdown_imgui_keep_hooks(w) ==
    LET ctx == w.g.imgui_ctx IN
    [w EXCEPT
        !.host.destroys = [@ EXCEPT ![ctx] = @ + 1],
        !.host.live_ctx = @ \ {ctx},
        !.g.imgui_ctx = 0]

\* Removes every hook of draw_handlers from the host, destroys the context
\* and sets imgui_ctx to None; draw_handlers and callbacks are left as they are.
shutdown_imgui(w) ==
    LET ctx == w.g.imgui_ctx
        h1 == RemoveHooks(w.host, w.g.draw_handlers)
    IN  [w EXCEPT
            !.host = [h1 EXCEPT !.destroys = [@ EXCEPT ![ctx] = @ + 1],
                                !.live_ctx = @ \ {ctx}],
            !.g.imgui_ctx = 0]

\* SpaceType.draw_handler_add(self.draw, (SpaceType,), 'WINDOW', 'POST_PIXEL')
InstallHook(w, sp) ==
    LET id == w.host.n_hooks + 1 IN
    [w EXCEPT
        !.host.hooks = @ \cup {[id |-> id, space |-> sp]},
        !.host.n_hooks = id,
        !.host.removals = Append(@, 0),
        !.g.draw_handlers = @ \cup {[space |-> sp, hook |-> id]}]

\* Variant: a hook is installed on every registration.
EnsureHook_always(w, sp) == InstallHook(w, sp)

EnsureHook(w, sp) ==
    IF sp \notin {e.space : e \in w.g.draw_handlers} THEN InstallHook(w, sp) ELSE w

handler_add(w, cb, sp) ==
    LET w1 == IF w.g.imgui_ctx = 0 THEN init_imgui(w) ELSE w
        w2 == EnsureHook(w1, sp)
        handle == w2.g.next_callback_id
    IN  [w2 EXCEPT
            !.g.next_callback_id = handle + 1,
            !.g.callbacks = DictSet(@, handle, cb, sp),
            !.returned = Append(@, handle),
            !.added = @ \cup {sp},
            !.outcome = "returned"]

\* Variant: the registration is removed but an emptied registry is not shut down.
handler_remove_no_teardown(w, handle) ==
    IF ~w.g.has_attrs THEN [w EXCEPT !.outcome = "AttributeError"]
    ELSE IF handle \notin Keys(w.g.callbacks)
    THEN [w EXCEPT !.outcome = "reported"]
    ELSE [w EXCEPT !.g.callbacks = DictDel(@, handle), !.outcome = "returned"]

\* `handle not in self.callbacks` reads an attribute that exists only once
\* init_imgui has run: before that the lookup raises AttributeError.
handler_remove(w, handle) ==
    IF ~w.g.has_attrs THEN [w EXCEPT !.outcome = "AttributeError"]
    ELSE IF handle \notin Keys(w.g.callbacks)
    THEN [w EXCEPT !.outcome = "reported"]
    ELSE LET w1 == [w EXCEPT !.g.callbacks = DictDel(@, handle),
                             !.outcome = "returned"]
         IN  IF w1.g.callbacks = <<>> THEN shutdown_imgui(w1) ELSE w1

World ==
    [g |-> g, host |-> host, returned |-> returned, added |-> added, outcome |-> "none"]

(***************************************************************************)
(* GlobalImgui.draw up to the end of the callback loop.  A callback is     *)
(* foreign code: act says which callback (act.who, a handle, or -1 for     *)
(* none) calls the registry while it runs, and what it calls.              *)
(***************************************************************************)
Ev(name) == [ev |-> name, handle |-> -1, cb |-> "", context |-> ""]

CbEv(e, context) ==
    [ev |-> "callback", handle |-> e.handle, cb |-> e.cb, context |-> context]

NoAct == [who |-> -1, op |-> "none", cb |-> "", space |-> "", handle |-> -1]

\* cb(context), with the registry call the callback makes
invoke(w, e, act) ==
    IF act.who # e.handle THEN w
    ELSE IF act.op = "add" THEN handler_add(w, act.cb, act.space)
    ELSE IF act.op = "remove" THEN handler_remove(w, act.handle)
    ELSE w

\* if SpaceType == CurrentSpaceType
Matches(SpaceType, CurrentSpaceType) == SpaceType = CurrentSpaceType

\* `for cb, SpaceType in self.callbacks.values()`, from entry number i on.
\* `used` is the dict's size when the iterator was made: the iterator raises
\* RuntimeError ("dictionary changed size during iteration") on the first
\* step that finds another size.
RECURSIVE draw_loop(_, _, _, _, _, _, _)
draw_loop(w, fr, used, i, CurrentSpaceType, context, act) ==
    IF Len(w.g.callbacks) # used
    THEN [w |-> [w EXCEPT !.outcome = "RuntimeError"], frame |-> fr]
    ELSE IF i > used
    THEN [w |-> [w EXCEPT !.outcome = "returned"], frame |-> fr]
    ELSE LET e == w.g.callbacks[i]
         IN  IF Matches(e.space, CurrentSpaceType)
             THEN draw_loop(invoke(w, e, act), Append(fr, CbEv(e, context)),
                            used, i + 1, CurrentSpaceType, context, act)
             ELSE draw_loop(w, fr, used, i + 1, CurrentSpaceType, context, act)

(***************************************************************************)
(* BlenderImguiRenderer.render.  Floats are fixed-point with unit 1/4:     *)
(* fl(n) is the float n.0, mul the float product (exact on the inputs      *)
(* below: display sizes are whole, scales and clip coordinates are         *)
(* multiples of 1/2), int() Python's truncation toward zero.               *)
(***************************************************************************)
fl(n) == 4 * n

mul(a, b) == (a * b) \div 4

int(v) == IF v >= 0 THEN v \div 4 ELSE -((-v) \div 4)

\* sequence[a:b] of Python / numpy, 0-based, clamped to the sequence
Slice(s, a, b) ==
    LET lo == IF a < Len(s) THEN a ELSE Len(s)
        hi == IF b < Len(s) THEN b ELSE Len(s)
    IN  IF hi <= lo THEN <<>> ELSE SubSeq(s, lo + 1, hi)

\* imgui.INDEX_SIZE: bytes per index.  render reads the index buffer as
\* 4-byte ints (C.c_int), idx_buffer_size * INDEX_SIZE // 4 of them.
INDEX_SIZE == 4

\* np.ctypeslib.as_array(ptr, shape=(size,)) over the index buffer
idx_buffer_np(commands) ==
    Slice(commands.idx_buffer, 0, (Len(commands.idx_buffer) * INDEX_SIZE) \div 4)

Call(fn, args) == [fn |-> fn, args |-> args]

\* draw_data.scale_clip_rects(sx, sy)
scale_clip_rects(dd, sx, sy) ==
    [commands_lists |->
        [i \in 1..Len(dd.commands_lists) |->
            [dd.commands_lists[i] EXCEPT !.commands =
                [j \in 1..Len(@) |->
                    [@[j] EXCEPT !.clip_rect =
                        <<mul(@[1], sx), mul(@[2], sy), mul(@[3], sx), mul(@[4], sy)>>]]]]]

\* Variant: `and` in place of `or`.
Degenerate_both(fb_width, fb_height) == fb_width = 0 /\ fb_height = 0

\* if fb_width == 0 or fb_height == 0: return
Degenerate(fb_width, fb_height) == fb_width = 0 \/ fb_height = 0

\* Variant: the y origin is not flipped.
ScissorArgs_no_flip(clip_rect, fb_height) ==
    <<int(clip_rect[1]), int(clip_rect[2]),
      int(clip_rect[3] - clip_rect[1]), int(clip_rect[4] - clip_rect[2])>>

\* x, y, z, w = command.clip_rect
\* gpu.state.scissor_set(int(x), int(fb_height - w), int(z - x), int(w - y))
ScissorArgs(clip_rect, fb_height) ==
    <<int(clip_rect[1]), int(fl(fb_height) - clip_rect[4]),
      int(clip_rect[3] - clip_rect[1]), int(clip_rect[4] - clip_rect[2])>>

\* Variant: the offset is not advanced.
NextOffset_stuck(idx_buffer_offset, command) == idx_buffer_offset

\* idx_buffer_offset += command.elem_count
NextOffset(idx_buffer_offset, command) == idx_buffer_offset + command.elem_count

\* Variant: the blend mode render set is left in place.
RestoredBlend_alpha(last_blend) == "ALPHA"

\* gpu.state.blend_set(last_blend)
RestoredBlend(last_blend) == last_blend

\* the body of `for command in commands.commands`, from command number j on
RECURSIVE render_commands(_, _, _, _, _, _)
render_commands(st, commands, idx, j, idx_buffer_offset, fb_height) ==
    IF j > Len(commands.commands) THEN st
    ELSE LET command == commands.commands[j]
             sc == ScissorArgs(command.clip_rect, fb_height)
             indices == Slice(idx, idx_buffer_offset,
                              idx_buffer_offset + command.elem_count)
             st1 == [st EXCEPT
                        !.scissor = sc,
                        !.calls = @ \o <<Call("scissor_set", sc),
                                         Call("uniform_sampler", <<command.texture_id>>),
                                         Call("batch.draw", indices)>>]
         IN  render_commands(st1, commands, idx, j + 1,
                             NextOffset(idx_buffer_offset, command), fb_height)

\* `for commands in draw_data.commands_lists`, from list number i on
RECURSIVE render_lists(_, _, _, _)
render_lists(st, dd, i, fb_height) ==
    IF i > Len(dd.commands_lists) THEN st
    ELSE LET commands == dd.commands_lists[i]
         IN  render_lists(
                 render_commands(st, commands, idx_buffer_np(commands), 1, 0, fb_height),
                 dd, i + 1, fb_height)

\* render(draw_data) with io and the host GPU state st on entry; the result is
\* [gpu, draw_data, ret].  gpu.calls is the host calls this render made.
render(io_, dd, st) ==
    LET display_width == io_.display_size[1]
        display_height == io_.display_size[2]
        fb_width == int(mul(display_width, io_.display_fb_scale[1]))
        fb_height == int(mul(display_height, io_.display_fb_scale[2]))
        st0 == [st EXCEPT !.calls = <<>>]
    IN  IF Degenerate(fb_width, fb_height)
        THEN [gpu |-> st0, draw_data |-> dd, ret |-> "skipped"]
        ELSE
        LET dd1 == scale_clip_rects(dd, io_.display_fb_scale[1], io_.display_fb_scale[2])
            last_blend == st.blend
            st1 == [st0 EXCEPT
                      !.blend = "ALPHA",
                      !.face_culling = "NONE",
                      !.scissor_test = TRUE,
                      !.viewport = <<0, 0, fb_width, fb_height>>,
                      !.calls = <<Call("blend_get", <<>>),
                                  Call("blend_set", <<"ALPHA">>),
                                  Call("face_culling_set", <<"NONE">>),
                                  Call("scissor_test_set", <<TRUE>>),
                                  Call("viewport_set", <<0, 0, fb_width, fb_height>>),
                                  Call("shader.bind", <<>>),
                                  Call("shader.uniform_float", <<"ProjMtx">>),
                                  Call("shader.uniform_int", <<"Texture", 0>>)>>]
            st2 == render_lists(st1, dd1, 1, fb_height)
            st3 == [st2 EXCEPT
                      !.blend = RestoredBlend(last_blend),
                      !.scissor_test = FALSE,
                      !.calls = @ \o <<Call("blend_set", <<RestoredBlend(last_blend)>>),
                                       Call("scissor_test_set", <<FALSE>>)>>]
        IN  [gpu |-> st3, draw_data |-> dd1, ret |-> "drawn"]

(***************************************************************************)
(* Inputs.                                                                 *)
(***************************************************************************)
\* draw commands: one clipped inside a 4 x 3 framebuffer, at x0 = 1.5, and
\* one whose clip rectangle extends beyond it on every side
Commands ==
    {[elem_count |-> 3, clip_rect |-> <<6, 0, fl(3), fl(2)>>, texture_id |-> 1],
     [elem_count |-> 6, clip_rect |-> <<-fl(2), -fl(1), fl(6), fl(5)>>, texture_id |-> 2]}

RECURSIVE SumElems(_)
SumElems(cmds) ==
    IF cmds = <<>> THEN 0 ELSE Head(cmds).elem_count + SumElems(Tail(cmds))

\* a command list as the GUI library builds it: the index buffer holds the
\* indices of its commands back to back (here each index is its own position)
MkList(cmds) ==
    [idx_buffer |-> [k \in 1..SumElems(cmds) |-> k - 1], commands |-> cmds]

CommandLists == {MkList(c) : c \in UNION {[1..n -> Commands] : n \in 0..MaxCmds}}

DrawDatas ==
    {[commands_lists |-> l] : l \in UNION {[1..n -> CommandLists] : n \in 0..MaxLists}}

EmptyDrawData == [commands_lists |-> <<>>]

OneTriangle ==
    [commands_lists |->
        <<MkList(<<[elem_count |-> 3, clip_rect |-> <<6, 0, fl(3), fl(2)>>,
                    texture_id |-> 1]>>)>>]

\* what imgui.get_draw_data() returns to draw
FrameDrawDatas == {OneTriangle}

\* region.width, region.height
Regions == {<<4, 3>>}

\* io of the render under test: whole display sizes, scales 1, 0.5 and 2
IOs ==
    {[display_size |-> <<fl(d[1]), fl(d[2])>>, display_fb_scale |-> <<s, s>>] :
        d \in {<<0, 3>>, <<1, 3>>, <<4, 3>>, <<4, 0>>}, s \in {fl(1), 2, fl(2)}}

GpuOnEntry ==
    {[blend |-> b, scissor_test |-> t, face_culling |-> "BACK",
      viewport |-> <<0, 0, 0, 0>>, scissor |-> <<0, 0, 0, 0>>, calls |-> <<>>] :
        b \in {"NONE", "ALPHA", "ADDITIVE"}, t \in BOOLEAN}

(***************************************************************************)
(* ImguiBasedOperator.modal_imgui, the input translator.  An event is      *)
(* [type, value, mouse_region_x, mouse_region_y, unicode]; event.unicode   *)
(* is the sequence of its code points (<<>> is the empty string).          *)
(***************************************************************************)
\* ImguiBasedOperator.key_map.  The imgui.KEY_* entries are the values of
\* the GUI library's key enumeration (distinct, below 128); the modifier
\* entries are the literals 128 + 1 .. 128 + 7 of the source.
key_map ==
    ("TAB" :> 0) @@ ("LEFT_ARROW" :> 1) @@ ("RIGHT_ARROW" :> 2) @@ ("UP_ARROW" :> 3)
    @@ ("DOWN_ARROW" :> 4) @@ ("HOME" :> 7) @@ ("END" :> 8) @@ ("INSERT" :> 9)
    @@ ("DEL" :> 10) @@ ("BACK_SPACE" :> 11) @@ ("RET" :> 13) @@ ("ESC" :> 14)
    @@ ("PAGE_UP" :> 5) @@ ("PAGE_DOWN" :> 6) @@ ("A" :> 16) @@ ("C" :> 17)
    @@ ("V" :> 18) @@ ("X" :> 19) @@ ("Y" :> 20) @@ ("Z" :> 21)
    @@ ("LEFT_CTRL" :> 128 + 1) @@ ("RIGHT_CTRL" :> 128 + 2)
    @@ ("LEFT_ALT" :> 128 + 3) @@ ("RIGHT_ALT" :> 128 + 4)
    @@ ("LEFT_SHIFT" :> 128 + 5) @@ ("RIGHT_SHIFT" :> 128 + 6)
    @@ ("OSKEY" :> 128 + 7)

\* the slots of io.keys_down the key map names; no other slot is ever written
KeySlots == {key_map[t] : t \in DOMAIN key_map}

\* the io of a fresh GUI context
NewInputIO ==
    [mouse_pos |-> <<0, 0>>,
     mouse_down |-> [b \in 0..2 |-> FALSE],
     mouse_wheel |-> 0,
     keys_down |-> [k \in KeySlots |-> FALSE],
     key_ctrl |-> FALSE, key_alt |-> FALSE, key_shift |-> FALSE, key_super |-> FALSE,
     input_characters |-> <<>>]

\* ord(event.unicode), for a one-character string
ord(unicode) == unicode[1]

\* the mouse branches: `io.mouse_down[b] = event.value == 'PRESS'`
mouse_buttons(mouse_down, event) ==
    IF event.type = "LEFTMOUSE" THEN [mouse_down EXCEPT ![0] = (event.value = "PRESS")]
    ELSE IF event.type = "RIGHTMOUSE" THEN [mouse_down EXCEPT ![1] = (event.value = "PRESS")]
    ELSE IF event.type = "MIDDLEMOUSE" THEN [mouse_down EXCEPT ![2] = (event.value = "PRESS")]
    ELSE mouse_down

\* Variant: the second wheel branch tests the host's wheel-down event type.
mouse_wheel_down_handled(mouse_wheel, event) ==
    IF event.type \in {"LEFTMOUSE", "RIGHTMOUSE", "MIDDLEMOUSE"} THEN mouse_wheel
    ELSE IF event.type = "WHEELUPMOUSE" THEN -1
    ELSE IF event.type = "WHEELDOWNMOUSE" THEN 1
    ELSE mouse_wheel

\* the wheel branches of the same if / elif chain; the second one tests
\* 'WHEELUPDOWN'
mouse_wheel(mouse_wheel_, event) ==
    IF event.type \in {"LEFTMOUSE", "RIGHTMOUSE", "MIDDLEMOUSE"} THEN mouse_wheel_
    ELSE IF event.type = "WHEELUPMOUSE" THEN -1
    ELSE IF event.type = "WHEELUPDOWN" THEN 1
    ELSE mouse_wheel_

\* Variant: a release leaves the slot set.
keys_down_sticky(keys_down_, event) ==
    IF event.type \in DOMAIN key_map /\ event.value = "PRESS"
    THEN [keys_down_ EXCEPT ![key_map[event.type]] = TRUE]
    ELSE keys_down_

\* `if event.type in self.key_map:` with its PRESS and RELEASE branches
keys_down(keys_down_, event) ==
    IF event.type \in DOMAIN key_map
    THEN IF event.value = "PRESS"
         THEN [keys_down_ EXCEPT ![key_map[event.type]] = TRUE]
         ELSE IF event.value = "RELEASE"
         THEN [keys_down_ EXCEPT ![key_map[event.type]] = FALSE]
         ELSE keys_down_
    ELSE keys_down_

\* Variant: only the left key of a pair is read.
either_down_left_only(keys_down_, left, right) == keys_down_[key_map[left]]

\* io.keys_down[self.key_map[left]] or io.keys_down[self.key_map[right]]
either_down(keys_down_, left, right) ==
    keys_down_[key_map[left]] \/ keys_down_[key_map[right]]

\* `if event.unicode:` ... io.add_input_character(char)
add_input_character(input_characters, event) ==
    IF event.unicode # <<>>
    THEN LET char == ord(event.unicode)
         IN  IF 0 < char /\ char < 65536
             THEN Append(input_characters, char)
             ELSE input_characters
    ELSE input_characters

modal_imgui(io_, region, event) ==
    LET kd == keys_down(io_.keys_down, event) IN
    [mouse_pos |-> <<event.mouse_region_x, region[2] - 1 - event.mouse_region_y>>,
     mouse_down |-> mouse_buttons(io_.mouse_down, event),
     mouse_wheel |-> mouse_wheel(io_.mouse_wheel, event),
     keys_down |-> kd,
     key_ctrl |-> either_down(kd, "LEFT_CTRL", "RIGHT_CTRL"),
     key_alt |-> either_down(kd, "LEFT_ALT", "RIGHT_ALT"),
     key_shift |-> either_down(kd, "LEFT_SHIFT", "RIGHT_SHIFT"),
     key_super |-> kd[key_map["OSKEY"]],
     input_characters |-> add_input_character(io_.input_characters, event)]

(***************************************************************************)
(* register_overlay and unregister_overlay.  An overlay class is named by  *)
(* its bl_idname; the callback registered for it is the draw method of an  *)
(* instance, named by the class.  driver_namespace maps a class to the     *)
(* handle stored under "_imgui_" + bl_idname, None where there is no key.  *)
(***************************************************************************)
None == -1

\* handle = imgui_handler_add(cls().draw, SpaceView3D), and the handle is
\* stored (over whatever the key held before)
register_overlay(w, ns, cls) ==
    LET w1 == handler_add(w, cls, "SpaceView3D")
        handle == w1.returned[Len(w1.returned)]
    IN  [w |-> w1, ns |-> [ns EXCEPT ![cls] = handle]]

\* handle = driver_namespace.get(key); imgui_handler_remove(handle) unless it
\* is None.  The key stays in the namespace.
unregister_overlay(w, ns, cls) ==
    LET handle == ns[cls]
    IN  IF handle # None
        THEN [w |-> handler_remove(w, handle), ns |-> ns]
        ELSE [w |-> [w EXCEPT !.outcome = "returned"], ns |-> ns]

(***************************************************************************)
(* Loading the module: the statements run at import, in order.  m is       *)
(* [state, imgui_installed, printed, raised].                              *)
(***************************************************************************)
\* try: import imgui / except ModuleNotFoundError: print("ERROR: ...")
import_imgui(m) ==
    IF m.imgui_installed THEN m
    ELSE [m EXCEPT !.printed = Append(@, "ERROR: imgui was not found")]

\* from imgui.integrations.base import BaseOpenGLRenderer, outside the try:
\* the exception leaves the module
import_base(m) ==
    IF m.imgui_installed THEN m
    ELSE [m EXCEPT !.state = "failed", !.raised = "ModuleNotFoundError"]

\* the rest of the module: the class and function definitions.  The body of
\* ImguiBasedOperator reads imgui.KEY_TAB, a NameError without imgui.
definitions(m) ==
    IF m.state = "failed" THEN m
    ELSE IF m.imgui_installed THEN [m EXCEPT !.state = "loaded"]
    ELSE [m EXCEPT !.state = "failed", !.raised = "NameError"]

load_module(m) == definitions(import_base(import_imgui(m)))

Unloaded(installed) ==
    [state |-> "unloaded", imgui_installed |-> installed, printed |-> <<>>, raised |-> ""]

(***************************************************************************)
(* The registry: handler_add, handler_remove and the host's dispatch.      *)
(***************************************************************************)
NoCall == [op |-> "none", handle |-> -1, space |-> "", context |-> "", outcome |-> "none"]

InitRegistry ==
    /\ g = NewGlobalImgui
    /\ host = NewHost
    /\ returned = <<>>
    /\ added = {}
    /\ frame = <<>>

\* the module loaded with imgui installed, no input event delivered, and an
\* empty driver_namespace
InitOther ==
    /\ input_io = NewInputIO
    /\ driver_namespace = [cls \in OverlayClasses |-> None]
    /\ module = load_module(Unloaded(TRUE))

Init ==
    /\ InitRegistry
    /\ last_call = NoCall
    /\ io = [display_size |-> <<0, 0>>, display_fb_scale |-> <<fl(1), fl(1)>>]
    /\ draw_data = EmptyDrawData
    /\ gpu = [blend |-> "NONE", scissor_test |-> FALSE, face_culling |-> "BACK",
              viewport |-> <<0, 0, 0, 0>>, scissor |-> <<0, 0, 0, 0>>, calls |-> <<>>]
    /\ InitOther


SetWorld(w) ==
    /\ g' = w.g
    /\ host' = w.host
    /\ returned' = w.returned
    /\ added' = w.added

\* imgui_handler_add(callback, SpaceType)
HandlerAdd(cb, sp) ==
    /\ Len(returned) < MaxAdds
    /\ LET w == handler_add(World, cb, sp)
       IN  /\ SetWorld(w)
           /\ last_call' = [op |-> "handler_add", handle |-> w.returned[Len(w.returned)],
                            space |-> sp, context |-> "", outcome |-> w.outcome]
    /\ frame' = <<>>
    /\ UNCHANGED <<io, draw_data, gpu, input_io, driver_namespace, module>>

\* imgui_handler_remove(handle)
HandlerRemove(handle) ==
    /\ LET w == handler_remove(World, handle)
       IN  /\ SetWorld(w)
           /\ last_call' = [op |-> "handler_remove", handle |-> handle,
                            space |-> "", context |-> "", outcome |-> w.outcome]
    /\ frame' = <<>>
    /\ UNCHANGED <<io, draw_data, gpu, input_io, driver_namespace, module>>

\* What one callback may call while the dispatch for CurrentSpaceType runs:
\* nothing, handler_add, or handler_remove of a registered handle or of one
\* that is not registered.  Only a callback the dispatch invokes can act.
Acts(CurrentSpaceType) ==
    LET invoked == {g.callbacks[i].handle : i \in
                        {j \in 1..Len(g.callbacks) :
                            g.callbacks[j].space = CurrentSpaceType}}
    IN  {NoAct}
        \cup {[who |-> h, op |-> "add", cb |-> a[1], space |-> a[2], handle |-> -1] :
                h \in IF Len(returned) < MaxAdds THEN invoked ELSE {},
                a \in AddArgs}
        \cup {[who |-> h, op |-> "remove", cb |-> "", space |-> "", handle |-> k] :
                h \in invoked, k \in Keys(g.callbacks) \cup {MaxAdds}}

\* The host runs the hook installed for CurrentSpaceType: GlobalImgui.draw.
Draw(CurrentSpaceType, context, region, act, dd) ==
    /\ \E k \in host.hooks : k.space = CurrentSpaceType
    /\ LET io1 == [io EXCEPT !.display_size = <<fl(region[1]), fl(region[2])>>]
           fr0 == <<Ev("io.display_size"), Ev("io.font_global_scale"), Ev("new_frame")>>
           r == draw_loop(World, fr0, Len(g.callbacks), 1, CurrentSpaceType, context, act)
           call == [op |-> "draw", handle |-> -1, space |-> CurrentSpaceType,
                    context |-> context, outcome |-> r.w.outcome]
       IN  /\ SetWorld(r.w)
           /\ io' = io1
           /\ last_call' = call
           /\ IF r.w.outcome = "returned"
              THEN LET rr == render(io1, dd, gpu)
                   IN  /\ frame' = r.frame \o <<Ev("end_frame"), Ev("imgui.render"),
                                                Ev("imgui_backend.render")>>
                       /\ gpu' = rr.gpu
                       /\ draw_data' = rr.draw_data
              ELSE /\ frame' = r.frame
                   /\ UNCHANGED <<gpu, draw_data>>
    /\ UNCHANGED <<input_io, driver_namespace, module>>

Next ==
    \/ \E a \in AddArgs : HandlerAdd(a[1], a[2])
    \/ \E handle \in Handles : HandlerRemove(handle)
    \/ \E sp \in SpaceTypes, context \in HostContexts, region \in Regions,
          dd \in FrameDrawDatas :
            \E act \in Acts(sp) : Draw(sp, context, region, act, dd)

Spec == Init /\ [][Next]_vars

(***************************************************************************)
(* The draw translator on its own: render on every DrawData, io and host   *)
(* GPU state of the input sets.                                            *)
(***************************************************************************)
InitRender ==
    /\ InitRegistry
    /\ last_call = NoCall
    /\ io \in IOs
    /\ draw_data \in DrawDatas
    /\ gpu \in GpuOnEntry
    /\ InitOther

RenderCall ==
    /\ last_call.op = "none"
    /\ LET rr == render(io, draw_data, gpu)
       IN  /\ gpu' = rr.gpu
           /\ draw_data' = rr.draw_data
           /\ last_call' = [op |-> "render", handle |-> -1, space |-> "",
                            context |-> "", outcome |-> rr.ret]
    /\ UNCHANGED <<g, host, returned, added, frame, io, input_io, driver_namespace,
                   module>>

NextRender == RenderCall

SpecRender == InitRender /\ [][NextRender]_vars

(***************************************************************************)
(* The input translator: an operator that has called init_imgui (one       *)
(* registration for SpaceView3D, so the GUI context exists) is handed the   *)
(* host's events.                                                          *)
(***************************************************************************)
ModifierTypes ==
    {"LEFT_CTRL", "RIGHT_CTRL", "LEFT_ALT", "RIGHT_ALT", "LEFT_SHIFT", "RIGHT_SHIFT",
     "OSKEY"}

Event(type, value, unicode) ==
    [type |-> type, value |-> value, mouse_region_x |-> 1, mouse_region_y |-> 0,
     unicode |-> unicode]

\* Events of the host: presses and releases of every modifier key, of a
\* mapped key (TAB, whose press carries the character 9; a third value,
\* neither PRESS nor RELEASE) and of a key that is not mapped (F1, once with
\* a character beyond 0xFFFF), the left mouse button, both wheel directions,
\* and a mouse move.
Events ==
    {Event(t, v, <<>>) : t \in ModifierTypes \cup {"LEFTMOUSE"}, v \in {"PRESS", "RELEASE"}}
    \cup {Event("TAB", "PRESS", <<9>>), Event("TAB", "RELEASE", <<>>),
          Event("TAB", "CLICK_DRAG", <<>>),
          Event("F1", "PRESS", <<128512>>), Event("F1", "RELEASE", <<>>),
          Event("WHEELUPMOUSE", "PRESS", <<>>), Event("WHEELDOWNMOUSE", "PRESS", <<>>),
          Event("MOUSEMOVE", "NOTHING", <<>>)}

InitInput ==
    /\ LET w == handler_add([g |-> NewGlobalImgui, host |-> NewHost, returned |-> <<>>,
                             added |-> {}, outcome |-> "none"], "f", "SpaceView3D")
       IN  /\ g = w.g
           /\ host = w.host
           /\ returned = w.returned
           /\ added = w.added
    /\ frame = <<>>
    /\ last_call = NoCall
    /\ io = [display_size |-> <<0, 0>>, display_fb_scale |-> <<fl(1), fl(1)>>]
    /\ draw_data = EmptyDrawData
    /\ gpu \in {st \in GpuOnEntry : st.blend = "NONE" /\ ~st.scissor_test}
    /\ InitOther

\* self.modal_imgui(context, event)
ModalImgui(region, event) ==
    /\ g.imgui_ctx # 0
    /\ LET io1 == modal_imgui(input_io, region, event)
       IN  /\ Len(io1.input_characters) <= MaxChars
           /\ input_io' = io1
    /\ last_call' = [op |-> "modal_imgui", handle |-> -1, space |-> "", context |-> "",
                     outcome |-> "returned", event |-> event]
    /\ UNCHANGED <<g, host, returned, added, frame, io, draw_data, gpu,
                   driver_namespace, module>>

NextInput == \E region \in Regions, event \in Events : ModalImgui(region, event)

SpecInput == InitInput /\ [][NextInput]_vars

(***************************************************************************)
(* The overlay wrappers, called for the overlay classes in any order.      *)
(***************************************************************************)
\* register_overlay(cls)
RegisterOverlay(cls) ==
    /\ Len(returned) < MaxAdds
    /\ LET r == register_overlay(World, driver_namespace, cls)
       IN  /\ SetWorld(r.w)
           /\ driver_namespace' = r.ns
           /\ last_call' = [op |-> "register_overlay", handle |-> r.ns[cls],
                            space |-> "SpaceView3D", context |-> "",
                            outcome |-> r.w.outcome, cls |-> cls]
    /\ frame' = <<>>
    /\ UNCHANGED <<io, draw_data, gpu, input_io, module>>

\* unregister_overlay(cls)
UnregisterOverlay(cls) ==
    /\ LET r == unregister_overlay(World, driver_namespace, cls)
       IN  /\ SetWorld(r.w)
           /\ driver_namespace' = r.ns
           /\ last_call' = [op |-> "unregister_overlay", handle |-> driver_namespace[cls],
                            space |-> "", context |-> "",
                            outcome |-> r.w.outcome, cls |-> cls]
    /\ frame' = <<>>
    /\ UNCHANGED <<io, draw_data, gpu, input_io, module>>

NextOverlay ==
    \/ \E cls \in OverlayClasses : RegisterOverlay(cls)
    \/ \E cls \in OverlayClasses : UnregisterOverlay(cls)

SpecOverlay == Init /\ [][NextOverlay]_vars

(***************************************************************************)
(* Loading the module, with and without the GUI library installed, and the *)
(* registry calls a loaded module offers.                                  *)
(***************************************************************************)
InitLoad ==
    /\ InitRegistry
    /\ last_call = NoCall
    /\ io = [display_size |-> <<0, 0>>, display_fb_scale |-> <<fl(1), fl(1)>>]
    /\ draw_data = EmptyDrawData
    /\ gpu \in {st \in GpuOnEntry : st.blend = "NONE" /\ ~st.scissor_test}
    /\ input_io = NewInputIO
    /\ driver_namespace = [cls \in OverlayClasses |-> None]
    /\ module \in {Unloaded(installed) : installed \in BOOLEAN}

\* import blender_imgui
LoadModule ==
    /\ module.state = "unloaded"
    /\ module' = load_module(module)
    /\ last_call' = [op |-> "import", handle |-> -1, space |-> "", context |-> "",
                     outcome |-> IF module'.state = "loaded" THEN "returned"
                                 ELSE module'.raised]
    /\ UNCHANGED <<g, host, returned, added, frame, io, draw_data, gpu, input_io,
                   driver_namespace>>

\* the module's functions exist once it is loaded
NextLoad ==
    \/ LoadModule
    \/ /\ module.state = "loaded"
       /\ \/ \E a \in AddArgs : HandlerAdd(a[1], a[2])
          \/ \E handle \in Handles : HandlerRemove(handle)

SpecLoad == InitLoad /\ [][NextLoad]_vars

(***************************************************************************)
(* Properties of the registry (specification Spec).                        *)
(***************************************************************************)
HookedTypes == {k.space : k \in host.hooks}

CallbackEvents(fr) == SelectSeq(fr, LAMBDA e : e.ev = "callback")

RegisteredFor(cbs, T) == SelectSeq(cbs, LAMBDA e : e.space = T)

IsPrefix(a, b) == Len(a) <= Len(b) /\ a = SubSeq(b, 1, Len(a))

\* C1: after every handler_add and handler_remove call (in every reachable
\* state) the GUI context exists - imgui_ctx is not None and names the one
\* live context - if and only if the registration set is non-empty.
C1_ContextIffRegistered ==
    /\ (g.imgui_ctx # 0) <=> (Len(g.callbacks) > 0)
    /\ host.live_ctx = IF g.imgui_ctx # 0 THEN {g.imgui_ctx} ELSE {}

\* C1 witness: the second teardown has happened, and the context is gone
\* with the last registration.
C1_Witness ==
    /\ last_call.op = "handler_remove"
    /\ last_call.outcome = "returned"
    /\ host.n_ctx = 2
    /\ g.imgui_ctx = 0
    /\ g.callbacks = <<>>

\* C2 (as claimed): every handle handler_add returns is strictly greater than
\* every handle it returned earlier, over the whole lifetime.
C2_HandlesStrictlyIncreasing ==
    \A i, j \in 1..Len(returned) : i < j => returned[i] < returned[j]

\* C3 (as claimed): in every reachable state, handler_remove of a handle that
\* is not in the registration set reports an error, returns normally and
\* leaves the registration set, the installed hooks and the context unchanged.
C3_UnknownHandleIsReportedNoOp ==
    [][(last_call'.op = "handler_remove" /\ last_call'.handle \notin Keys(g.callbacks))
        => /\ last_call'.outcome = "reported"
           /\ g'.callbacks = g.callbacks
           /\ host'.hooks = host.hooks
           /\ g'.imgui_ctx = g.imgui_ctx]_vars

\* C4 (as claimed): every dispatch for region type T invokes the callbacks
\* registered for T, each exactly once, with the dispatch's host context, in
\* increasing handle order, and no other callback: here, every callback that
\* is registered for T both when the dispatch begins and when it ends has
\* been invoked once, and only callbacks registered for T at the start run.
C4_DispatchInvokesRegistered ==
    [][last_call'.op = "draw"
        => LET invoked == CallbackEvents(frame')
               reg == RegisteredFor(g.callbacks, last_call'.space)
               expected == [i \in 1..Len(reg) |-> CbEv(reg[i], last_call'.context)]
           IN  /\ \A i, j \in 1..Len(invoked) :
                     i < j => invoked[i].handle < invoked[j].handle
               /\ \A i \in 1..Len(invoked) : \E k \in 1..Len(expected) :
                     invoked[i] = expected[k]
               /\ \A k \in 1..Len(expected) :
                     expected[k].handle \in Keys(g'.callbacks)
                        => \E i \in 1..Len(invoked) : invoked[i] = expected[k]]_vars

\* C5: at most one hook is installed per region type; while the context
\* exists a type has a hook iff handler_add was called for it since the last
\* initialisation; a handler_remove that leaves registrations removes no hook.
C5_OneHookPerAddedType ==
    /\ [](/\ \A T \in SpaceTypes : Cardinality({k \in host.hooks : k.space = T}) <= 1
          /\ g.imgui_ctx # 0 => HookedTypes = added)
    /\ [][(last_call'.op = "handler_remove" /\ g'.callbacks # <<>>)
            => host'.hooks = host.hooks]_vars

\* C5 witness: after a handler_remove, a region type keeps its hook although
\* no callback of that type is registered any more.
C5_Witness ==
    /\ last_call.op = "handler_remove"
    /\ last_call.outcome = "returned"
    /\ g.callbacks # <<>>
    /\ \E T \in HookedTypes : RegisteredFor(g.callbacks, T) = <<>>

\* C6: no hook is removed twice and no context destroyed twice; a hook is
\* installed iff it was never removed, a context live iff never destroyed;
\* with no context (after a teardown) every hook ever installed has been
\* removed once and every context destroyed once; and hooks are removed and
\* contexts destroyed only in a step that empties the registration set.
C6_ReleasedExactlyOnce ==
    /\ [](/\ \A i \in 1..host.n_hooks :
                /\ host.removals[i] <= 1
                /\ host.removals[i] = 0 <=> (\E k \in host.hooks : k.id = i)
          /\ \A c \in 1..host.n_ctx :
                /\ host.destroys[c] <= 1
                /\ host.destroys[c] = 0 <=> c \in host.live_ctx
          /\ g.imgui_ctx = 0 =>
                /\ host.hooks = {}
                /\ \A i \in 1..host.n_hooks : host.removals[i] = 1
                /\ \A c \in 1..host.n_ctx : host.destroys[c] = 1)
    /\ [][(\/ \E i \in 1..host.n_hooks : host'.removals[i] # host.removals[i]
           \/ \E c \in 1..host.n_ctx : host'.destroys[c] # host.destroys[c])
            => (g.callbacks # <<>> /\ g'.callbacks = <<>>)]_vars

\* C6 witness: two teardown cycles done, the second of which removed the hooks
\* of two region types.
C6_Witness ==
    /\ g.imgui_ctx = 0
    /\ host.n_ctx = 2
    /\ host.n_hooks = 3
    /\ \A i \in 1..3 : host.removals[i] = 1

(***************************************************************************)
(* Properties of render (specification SpecRender).                        *)
(***************************************************************************)
FbWidth == int(mul(io.display_size[1], io.display_fb_scale[1]))

FbHeight == int(mul(io.display_size[2], io.display_fb_scale[2]))

NonDegenerate == FbWidth # 0 /\ FbHeight # 0

CallsOf(fn) == SelectSeq(gpu.calls, LAMBDA c : c.fn = fn)

\* the draw commands of a DrawData in document order
RECURSIVE AllCommands(_)
AllCommands(lists) ==
    IF lists = <<>> THEN <<>> ELSE Head(lists).commands \o AllCommands(Tail(lists))

\* per draw command in document order: the elem_count indices of its list's
\* index buffer that follow those of the preceding commands of the list
RECURSIVE ExpectedSlices(_)
ExpectedSlices(lists) ==
    IF lists = <<>> THEN <<>>
    ELSE LET l == Head(lists)
             first(j) == SumElems(SubSeq(l.commands, 1, j - 1))
         IN  [j \in 1..Len(l.commands) |->
                 SubSeq(l.idx_buffer, first(j) + 1, first(j) + l.commands[j].elem_count)]
             \o ExpectedSlices(Tail(lists))

\* C7: a render whose computed framebuffer width or height is 0 makes no
\* host call, changes no host state and leaves draw_data as it was.
C7_DegenerateRenderDoesNothing ==
    [][(last_call'.op = "render" /\ ~NonDegenerate)
        => /\ gpu'.calls = <<>>
           /\ gpu' = gpu
           /\ draw_data' = draw_data]_vars

\* C7 witness: render returned on a DrawData with commands and a display
\* 1 wide at scale 0.5, whose framebuffer width int(0.5) is 0.
C7_Witness ==
    /\ last_call.op = "render"
    /\ io.display_size[1] = fl(1)
    /\ io.display_fb_scale[1] = 2
    /\ FbWidth = 0
    /\ FbHeight # 0
    /\ AllCommands(draw_data.commands_lists) # <<>>
    /\ gpu.calls = <<>>

\* C8: a non-degenerate render issues one draw call per draw command, in
\* document order, each with exactly elem_count indices: the slice of its
\* list's index buffer that starts at the sum of the elem_counts of the
\* preceding commands of that list.
C8_OneDrawPerCommand ==
    (last_call.op = "render" /\ NonDegenerate)
        => LET draws == CallsOf("batch.draw")
               cmds == AllCommands(draw_data.commands_lists)
           IN  /\ Len(draws) = Len(cmds)
               /\ \A k \in 1..Len(cmds) : Len(draws[k].args) = cmds[k].elem_count
               /\ [k \in 1..Len(draws) |-> draws[k].args]
                    = ExpectedSlices(draw_data.commands_lists)

\* C8 witness: two command lists, the first with commands of 3 and of 6
\* elements, so that the second draw call starts at offset 3.
C8_Witness ==
    /\ last_call.op = "render"
    /\ NonDegenerate
    /\ Len(draw_data.commands_lists) = 2
    /\ Len(draw_data.commands_lists[1].commands) = 2
    /\ draw_data.commands_lists[1].commands[1].elem_count = 3
    /\ draw_data.commands_lists[1].commands[2].elem_count = 6
    /\ Len(CallsOf("batch.draw")) >= 3
    /\ CallsOf("batch.draw")[2].args = <<3, 4, 5, 6, 7, 8>>

ClipInside(c) ==
    /\ 0 <= c[1] /\ c[1] <= c[3] /\ c[3] <= fl(FbWidth)
    /\ 0 <= c[2] /\ c[2] <= c[4] /\ c[4] <= fl(FbHeight)

ScissorWithin(sc) ==
    /\ sc[1] >= 0 /\ sc[2] >= 0 /\ sc[3] >= 0 /\ sc[4] >= 0
    /\ sc[1] + sc[3] <= FbWidth
    /\ sc[2] + sc[4] <= FbHeight

FlippedClip(c) ==
    <<int(c[1]), int(fl(FbHeight) - c[4]), int(c[3] - c[1]), int(c[4] - c[2])>>

\* C9 (as claimed): the scissor rectangle of every draw command is its clip
\* rectangle intersected with the framebuffer: the flipped clip rectangle when
\* that is inside the framebuffer, and in every case a rectangle within
\* [0,fbWidth] x [0,fbHeight] of non-negative width and height.
C9_ScissorClippedToFramebuffer ==
    (last_call.op = "render" /\ NonDegenerate)
        => LET scs == CallsOf("scissor_set")
               cmds == AllCommands(draw_data.commands_lists)
           IN  /\ Len(scs) = Len(cmds)
               /\ \A k \in 1..Len(cmds) :
                    /\ ClipInside(cmds[k].clip_rect)
                         => scs[k].args = FlippedClip(cmds[k].clip_rect)
                    /\ ScissorWithin(scs[k].args)

\* C9 (amended): the scissor rectangle of every draw command is its scaled
\* clip rectangle flipped to bottom-left origin, x = int(x0),
\* y = int(fbHeight - y1), width = int(x1 - x0), height = int(y1 - y0), with
\* no intersection made; it lies within the framebuffer when the clip
\* rectangle does.
C9_ScissorIsFlippedClip ==
    (last_call.op = "render" /\ NonDegenerate)
        => LET scs == CallsOf("scissor_set")
               cmds == AllCommands(draw_data.commands_lists)
           IN  /\ Len(scs) = Len(cmds)
               /\ \A k \in 1..Len(cmds) :
                    /\ scs[k].args = FlippedClip(cmds[k].clip_rect)
                    /\ ClipInside(cmds[k].clip_rect) => ScissorWithin(scs[k].args)

\* C9 witness: one command clipped inside the framebuffer at a fractional
\* x0, and one whose scissor rectangle starts left of and below the
\* framebuffer.
C9_Witness ==
    /\ last_call.op = "render"
    /\ NonDegenerate
    /\ LET scs == CallsOf("scissor_set")
           cmds == AllCommands(draw_data.commands_lists)
       IN  /\ Len(scs) = 2
           /\ ClipInside(cmds[1].clip_rect)
           /\ cmds[1].clip_rect[1] # fl(scs[1].args[1])
           /\ scs[1].args[2] > 0
           /\ scs[2].args[1] < 0
           /\ scs[2].args[2] < 0
           /\ scs[2].args[1] + scs[2].args[3] > FbWidth

\* C10: when a non-degenerate render returns, the host blend mode is the one
\* in effect on entry and scissor testing is disabled.
C10_BlendRestoredScissorOff ==
    [][(last_call'.op = "render" /\ NonDegenerate)
        => /\ gpu'.blend = gpu.blend
           /\ gpu'.scissor_test = FALSE]_vars

\* C10 witness: render has drawn commands under ALPHA blending and returned
\* with the ADDITIVE blend mode of its entry.
C10_Witness ==
    /\ last_call.op = "render"
    /\ last_call.outcome = "drawn"
    /\ gpu.blend = "ADDITIVE"
    /\ ~gpu.scissor_test
    /\ CallsOf("blend_set")[1].args = <<"ALPHA">>
    /\ Len(CallsOf("batch.draw")) > 0

(***************************************************************************)
(* Properties of the input translator (specification SpecInput).           *)
(***************************************************************************)
\* C11: a modal_imgui call with a PRESS event of a mapped type sets that
\* key's keys_down slot and changes no other slot, with a RELEASE event it
\* clears the slot and changes no other, and with an event of a type that is
\* not mapped it leaves every slot as it was.
C11_KeyEventSetsOnlyItsSlot ==
    [][last_call'.op = "modal_imgui"
        => LET e == last_call'.event
               old == input_io.keys_down
               new == input_io'.keys_down
           IN  IF e.type \in DOMAIN key_map
               THEN /\ e.value = "PRESS" => new[key_map[e.type]]
                    /\ e.value = "RELEASE" => ~new[key_map[e.type]]
                    /\ \A k \in KeySlots \ {key_map[e.type]} : new[k] = old[k]
               ELSE new = old]_vars

\* C11 witness: TAB was pressed (its character is queued) and has now been
\* released, while a modifier key pressed in between is still down.
C11_Witness ==
    /\ last_call.op = "modal_imgui"
    /\ last_call.event.type = "TAB"
    /\ last_call.event.value = "RELEASE"
    /\ input_io.input_characters = <<9>>
    /\ ~input_io.keys_down[0]
    /\ input_io.keys_down[128 + 1]

\* C12: after every modal_imgui call key_ctrl, key_alt and key_shift are the
\* disjunction of the left and right slot of their pair, and key_super is the
\* OSKEY slot.
C12_ModifiersFollowSlots ==
    last_call.op = "modal_imgui"
        => /\ input_io.key_ctrl
                <=> (input_io.keys_down[128 + 1] \/ input_io.keys_down[128 + 2])
           /\ input_io.key_alt
                <=> (input_io.keys_down[128 + 3] \/ input_io.keys_down[128 + 4])
           /\ input_io.key_shift
                <=> (input_io.keys_down[128 + 5] \/ input_io.keys_down[128 + 6])
           /\ input_io.key_super <=> input_io.keys_down[128 + 7]

\* C12 witness: the left control key has just been released while the right
\* one is held, no alt key is down, a shift key and the OS key are down.
C12_Witness ==
    /\ last_call.op = "modal_imgui"
    /\ last_call.event.type = "LEFT_CTRL"
    /\ last_call.event.value = "RELEASE"
    /\ input_io.keys_down[128 + 2]
    /\ input_io.key_ctrl
    /\ ~input_io.key_alt
    /\ input_io.key_shift
    /\ input_io.keys_down[128 + 6]
    /\ input_io.key_super

(***************************************************************************)
(* Properties of the dispatch and of the registry's resources              *)
(* (specification Spec).                                                   *)
(***************************************************************************)
EventsNamed(fr, name) == SelectSeq(fr, LAMBDA e : e.ev = name)

\* C13 (as claimed): every dispatch runs to completion, whatever its
\* callbacks do: it returns, having invoked every callback registered for
\* its region type when it began, ended the frame once and invoked the draw
\* translator once.
C13_DispatchRunsToCompletion ==
    [][last_call'.op = "draw"
        => /\ last_call'.outcome = "returned"
           /\ Len(CallbackEvents(frame'))
                = Len(RegisteredFor(g.callbacks, last_call'.space))
           /\ Len(EventsNamed(frame', "end_frame")) = 1
           /\ Len(EventsNamed(frame', "imgui_backend.render")) = 1]_vars

\* C17: in every reachable state, if a draw hook of the registry is
\* installed in the host then the GUI context exists and is live and the
\* renderer exists; with no context (Uninitialized) no hook is installed.
C17_HookOnlyWithContext ==
    /\ host.hooks # {} =>
            /\ g.imgui_ctx # 0
            /\ g.imgui_ctx \in host.live_ctx
            /\ g.imgui_backend # 0
    /\ g.imgui_ctx = 0 => host.hooks = {}

\* C17 witness: a handler_remove has just torn the registry down while hooks
\* of two region types were installed, and none is installed any more.
C17_Witness ==
    /\ last_call.op = "handler_remove"
    /\ last_call.outcome = "returned"
    /\ g.imgui_ctx = 0
    /\ Cardinality({e.space : e \in g.draw_handlers}) = 2
    /\ host.hooks = {}

\* C18 (as claimed): the events of every dispatch are, in this order, the
\* display size and the UI scale written, the frame begun, callback
\* invocations only, the frame ended, the DrawData built and the draw
\* translator invoked: every callback invocation lies between the frame's
\* begin and its end, and the draw translator is invoked once.
C18_DispatchOrder ==
    last_call.op = "draw"
        => LET n == Len(frame)
           IN  /\ n >= 6
               /\ SubSeq(frame, 1, 3)
                    = <<Ev("io.display_size"), Ev("io.font_global_scale"), Ev("new_frame")>>
               /\ \A i \in 4..(n - 3) : frame[i].ev = "callback"
               /\ SubSeq(frame, n - 2, n)
                    = <<Ev("end_frame"), Ev("imgui.render"), Ev("imgui_backend.render")>>

(***************************************************************************)
(* Properties of loading the module (specification SpecLoad).              *)
(***************************************************************************)
\* C14 (as claimed): without the GUI library, loading the module reports the
\* missing dependency once and completes: the load does not fail.
C14_LoadCompletesWithoutImgui ==
    (~module.imgui_installed /\ module.state # "unloaded")
        => /\ module.state = "loaded"
           /\ module.raised = ""
           /\ Len(module.printed) = 1

(***************************************************************************)
(* Properties of the overlay wrappers (specification SpecOverlay).         *)
(***************************************************************************)
\* the registrations that register_overlay(cls) did not create
NotOf(cbs, cls) == SelectSeq(cbs, LAMBDA e : e.cb # cls)

\* C15 (as claimed): unregister_overlay(cls) leaves the registrations of
\* every other overlay class as they were.
C15_UnregisterLeavesOthers ==
    [][last_call'.op = "unregister_overlay"
        => NotOf(g'.callbacks, last_call'.cls) = NotOf(g.callbacks, last_call'.cls)]_vars

\* C16 (as claimed): after unregister_overlay(cls) has returned, no callback
\* that register_overlay(cls) registered is in the registration set.
C16_UnregisterRemovesAll ==
    last_call.op = "unregister_overlay"
        => \A i \in 1..Len(g.callbacks) : g.callbacks[i].cb # last_call.cls

(***************************************************************************)
(* The scroll wheel (specification SpecInput).                             *)
(***************************************************************************)
\* C19: a modal_imgui call with a WHEELUPMOUSE event sets the scroll delta
\* to -1, one with a WHEELDOWNMOUSE event leaves the scroll delta as it was,
\* and the scroll delta is never positive.
C19_WheelDownIsIgnored ==
    /\ [](input_io.mouse_wheel <= 0)
    /\ [][last_call'.op = "modal_imgui"
            => /\ last_call'.event.type = "WHEELUPMOUSE" => input_io'.mouse_wheel = -1
               /\ last_call'.event.type = "WHEELDOWNMOUSE"
                    => input_io'.mouse_wheel = input_io.mouse_wheel]_vars

\* C19 witness: the wheel was turned up and then down, and the scroll delta
\* is still the -1 of the turn up.
C19_Witness ==
    /\ last_call.op = "modal_imgui"
    /\ last_call.event.type = "WHEELDOWNMOUSE"
    /\ input_io.mouse_wheel = -1

====
